---- MODULE Spec2Model ----
(***************************************************************************)
(* Model of maunium.net/go/mautrix  crypto/utils/utils.go                  *)
(*                                                                         *)
(* The package is a set of pure functions over byte buffers.  Bytes are    *)
(* the integers 0..255, Go byte slices and strings are sequences of bytes  *)
(* (a string is the sequence of its ASCII codes), a nil slice is the empty *)
(* sequence.  Each function is an operator computed the way the code       *)
(* computes it; the actions are the calls a client makes with its inputs.  *)
(***************************************************************************)
EXTENDS Integers, Sequences, FiniteSets, TLC

(***************************************************************************)
(* Program constants (utils.go, const block).                              *)
(***************************************************************************)
AESCTRKeyLength == 32
AESCTRIVLength == 16
HMACKeyLength == 32

Nil == << >>

(***************************************************************************)
(* Byte arithmetic: Go's ^ and & on the type byte.                         *)
(***************************************************************************)
RECURSIVE XorBits(_, _)
XorBits(a, b) ==
    IF a = 0 THEN b
    ELSE IF b = 0 THEN a
    ELSE ((a + b) % 2) + 2 * XorBits(a \div 2, b \div 2)

RECURSIVE AndBits(_, _)
AndBits(a, b) ==
    IF a = 0 \/ b = 0 THEN 0
    ELSE ((a % 2) * (b % 2)) + 2 * AndBits(a \div 2, b \div 2)

\* the two operations tabulated on half bytes
Xor4 == [a \in 0..15 |-> [b \in 0..15 |-> XorBits(a, b)]]

And4 == [a \in 0..15 |-> [b \in 0..15 |-> AndBits(a, b)]]

XorByte(a, b) == 16 * Xor4[a \div 16][b \div 16] + Xor4[a % 16][b % 16]

AndByte(a, b) == 16 * And4[a \div 16][b \div 16] + And4[a % 16][b % 16]

\* dst[i] = a[i] ^ b[i] over two slices of one length
\* a slice held as an explicit tuple of its elements
Slice(f) == f \o << >>

XorSeq(a, b) == Slice([i \in 1..Len(a) |-> XorByte(a[i], b[i])])

\* for _, b := range s[lo-1:hi] { parity ^= b }, started from parity 0.
\* The range is folded by halves (^ is associative), which keeps the
\* evaluation shallow.
RECURSIVE XorRange(_, _, _)
XorRange(s, lo, hi) ==
    IF lo > hi THEN 0
    ELSE IF lo = hi THEN s[lo]
    ELSE LET mid == (lo + hi) \div 2
         IN  XorByte(XorRange(s, lo, mid), XorRange(s, mid + 1, hi))

XorFold(s, n) == XorRange(s, 1, n)

Reverse(s) == [i \in 1..Len(s) |-> s[Len(s) + 1 - i]]

\* the number of leading elements of s equal to v
LeadingCount(s, v) ==
    CHOOSE n \in 0..Len(s) :
        /\ \A i \in 1..n : s[i] = v
        /\ n = Len(s) \/ s[n + 1] # v

(***************************************************************************)
(* math/big as base58 uses it.  A big.Int is the sequence of its base-256  *)
(* digits, least significant first, with no zero at the top; zero is the   *)
(* empty sequence.  Loops over the digits are written by halves of the     *)
(* index range, the first half feeding its carry to the second.            *)
(***************************************************************************)
Norm(x) ==
    SubSeq(x, 1, Len(x) - LeadingCount(Reverse(x), 0))

\* x.SetBytes(b) reads a big-endian byte slice, x.Bytes() writes one
SetBytes(b) == Norm(Reverse(b))

Bytes(x) == Reverse(x)

\* x.DivMod(x, m, mod) for a small m: schoolbook division from digit hi down
\* to digit lo; quo is most significant digit first, mod the remainder
RECURSIVE DivRange(_, _, _, _, _)
DivRange(x, lo, hi, m, rem) ==
    IF lo > hi THEN [quo |-> << >>, mod |-> rem]
    ELSE IF lo = hi
    THEN LET cur == rem * 256 + x[lo]
         IN  [quo |-> <<cur \div m>>, mod |-> cur % m]
    ELSE LET mid  == (lo + hi) \div 2
             high == DivRange(x, mid + 1, hi, m, rem)
             low  == DivRange(x, lo, mid, m, high.mod)
         IN  [quo |-> high.quo \o low.quo, mod |-> low.mod]

BigDivMod(x, m) ==
    LET r == DivRange(x, 1, Len(x), m, 0)
    IN  [quo |-> Norm(Reverse(r.quo)), mod |-> r.mod]

\* z.Mul(x, m) for a small m, digit lo up to digit hi
RECURSIVE MulRange(_, _, _, _, _)
MulRange(x, lo, hi, m, carry) ==
    IF lo > hi THEN [out |-> << >>, carry |-> carry]
    ELSE IF lo = hi
    THEN LET v == x[lo] * m + carry
         IN  [out |-> <<v % 256>>, carry |-> v \div 256]
    ELSE LET mid  == (lo + hi) \div 2
             low  == MulRange(x, lo, mid, m, carry)
             high == MulRange(x, mid + 1, hi, m, low.carry)
         IN  [out |-> low.out \o high.out, carry |-> high.carry]

BigMulSmall(x, m) ==
    LET r == MulRange(x, 1, Len(x), m, 0)
    IN  Norm(Append(r.out, r.carry))

\* z.Add(a, b), digit lo up to digit hi
RECURSIVE AddRange(_, _, _, _, _)
AddRange(a, b, lo, hi, carry) ==
    IF lo > hi THEN [out |-> << >>, carry |-> carry]
    ELSE IF lo = hi
    THEN LET da == IF lo <= Len(a) THEN a[lo] ELSE 0
             db == IF lo <= Len(b) THEN b[lo] ELSE 0
             v  == da + db + carry
         IN  [out |-> <<v % 256>>, carry |-> v \div 256]
    ELSE LET mid  == (lo + hi) \div 2
             low  == AddRange(a, b, lo, mid, carry)
             high == AddRange(a, b, mid + 1, hi, low.carry)
         IN  [out |-> low.out \o high.out, carry |-> high.carry]

BigAdd(a, b) ==
    LET n == IF Len(a) >= Len(b) THEN Len(a) ELSE Len(b)
        r == AddRange(a, b, 1, n, 0)
    IN  Norm(Append(r.out, r.carry))

(***************************************************************************)
(* github.com/btcsuite/btcutil/base58                                      *)
(***************************************************************************)
\* "123456789ABCDEFGHJKLMNPQRSTUVWXYZabcdefghijkmnopqrstuvwxyz"
alphabet ==
    << 49, 50, 51, 52, 53, 54, 55, 56, 57,
       65, 66, 67, 68, 69, 70, 71, 72, 74, 75, 76, 77, 78,
       80, 81, 82, 83, 84, 85, 86, 87, 88, 89, 90,
       97, 98, 99, 100, 101, 102, 103, 104, 105, 106, 107,
       109, 110, 111, 112, 113, 114, 115, 116, 117, 118, 119, 120, 121, 122 >>

bigRadix == Len(alphabet)

alphabetIdx0 == alphabet[1]

\* the reverse table b58 [256]byte: the digit of a character, 255 for none
b58 ==
    [c \in 0..255 |->
        IF \E i \in 1..bigRadix : alphabet[i] = c
        THEN (CHOOSE i \in 1..bigRadix : alphabet[i] = c) - 1
        ELSE 255]

\* Encode's first loop: for x.Cmp(bigZero) > 0 { x.DivMod(x, bigRadix, mod);
\* answer = append(answer, alphabet[mod.Int64()]) }.  EncodeRun makes at most
\* n turns of it from the state st = [x, answer].
RECURSIVE EncodeRun(_, _)
EncodeRun(st, n) ==
    IF st.x = << >> \/ n = 0 THEN st
    ELSE IF n = 1
    THEN LET r == BigDivMod(st.x, bigRadix)
         IN  [x |-> r.quo, answer |-> Append(st.answer, alphabet[r.mod + 1])]
    ELSE EncodeRun(EncodeRun(st, n \div 2), n - n \div 2)

\* a digit takes one turn and 256 < 58 * 58, so 2 * len(b) turns end the loop
Base58Encode(b) ==
    LET st == EncodeRun([x |-> SetBytes(b), answer |-> << >>], 2 * Len(b))
    IN  Reverse(st.answer \o [i \in 1..LeadingCount(b, 0) |-> alphabetIdx0])

\* Decode's loop, for i := len(b) - 1; i >= 0; i--, over the characters
\* hi down to lo from the state st = [bad, answer, j]; bad is the early
\* return at a character outside the alphabet
RECURSIVE DecodeRange(_, _, _, _)
DecodeRange(b, lo, hi, st) ==
    IF lo > hi THEN st
    ELSE IF lo = hi
    THEN LET tmp == b58[b[lo]]
         IN  IF tmp = 255
             THEN [bad |-> TRUE, answer |-> << >>, j |-> << >>]
             ELSE [bad |-> FALSE,
                   answer |-> BigAdd(st.answer, BigMulSmall(st.j, tmp)),
                   j |-> BigMulSmall(st.j, bigRadix)]
    ELSE LET mid  == (lo + hi) \div 2
             back == DecodeRange(b, mid + 1, hi, st)
         IN  IF back.bad THEN back ELSE DecodeRange(b, lo, mid, back)

Base58Decode(b) ==
    LET r == DecodeRange(b, 1, Len(b),
                         [bad |-> FALSE, answer |-> << >>, j |-> <<1>>])
    IN  IF r.bad THEN << >>
        ELSE [i \in 1..LeadingCount(b, alphabetIdx0) |-> 0] \o Bytes(r.answer)

(***************************************************************************)
(* The recovery key codec.                                                 *)
(***************************************************************************)
Space == 32

\* a variant that strips every whitespace character, as strings.Fields would
StripWhitespace(s) == SelectSeq(s, LAMBDA c : c \notin {32, 9, 10, 13})

\* strings.ReplaceAll(recoveryKey, " ", "")
StripSpaces(s) == SelectSeq(s, LAMBDA c : c # Space)

\* a variant whose copy is aligned to the end of inputBytes[2:34]
PayloadBodyRightAligned(key) ==
    [i \in 1..(AESCTRKeyLength + 3) |->
        IF i = 1 THEN 139
        ELSE IF i = 2 THEN 1
        ELSE IF i <= 34 /\ i - 34 + Len(key) >= 1 THEN key[i - 34 + Len(key)]
        ELSE 0]

\* var inputBytes [35]byte; copy(inputBytes[2:34], key[:]); tag; version
PayloadBody(key) ==
    [i \in 1..(AESCTRKeyLength + 3) |->
        IF i = 1 THEN 139
        ELSE IF i = 2 THEN 1
        ELSE IF i <= 34 /\ i - 2 <= Len(key) THEN key[i - 2]
        ELSE 0]

\* parity over inputBytes[:34]; inputBytes[34] = parity
Payload(key) ==
    LET body == PayloadBody(key)
    IN  [body EXCEPT ![35] = XorFold(body, 34)]

\* a variant that puts the space after every fourth character
RECURSIVE SpaceRangeTrailing(_, _, _)
SpaceRangeTrailing(s, lo, hi) ==
    IF lo > hi THEN << >>
    ELSE IF lo = hi
    THEN LET i == lo - 1
         IN  IF i % 4 = 3 THEN <<s[lo], Space>> ELSE <<s[lo]>>
    ELSE LET mid == (lo + hi) \div 2
         IN  SpaceRangeTrailing(s, lo, mid) \o SpaceRangeTrailing(s, mid + 1, hi)

\* the loop building spacedKey, for the characters lo..hi of recoveryKey
\* (1-based here; i is Go's 0-based index)
RECURSIVE SpaceRange(_, _, _)
SpaceRange(s, lo, hi) ==
    IF lo > hi THEN << >>
    ELSE IF lo = hi
    THEN LET i == lo - 1
         IN  IF i > 0 /\ i % 4 = 0 THEN <<Space, s[lo]>> ELSE <<s[lo]>>
    ELSE LET mid == (lo + hi) \div 2
         IN  SpaceRange(s, lo, mid) \o SpaceRange(s, mid + 1, hi)

Spaced(recoveryKey) == SpaceRange(recoveryKey, 1, Len(recoveryKey))

EncodeBase58RecoveryKey(key) == Spaced(Base58Encode(Payload(key)))

\* a variant that returns decoded[3:35]
DecodeShifted(recoveryKey) ==
    LET noSpaces == StripSpaces(recoveryKey)
        decoded  == Base58Decode(noSpaces)
    IN  IF Len(decoded) # AESCTRKeyLength + 3 THEN Nil
        ELSE IF XorFold(decoded, 34) # decoded[35]
                \/ decoded[1] # 139 \/ decoded[2] # 1 THEN Nil
        ELSE SubSeq(decoded, 4, 35)

\* a variant without the parity check
DecodeNoParity(recoveryKey) ==
    LET noSpaces == StripSpaces(recoveryKey)
        decoded  == Base58Decode(noSpaces)
    IN  IF Len(decoded) # AESCTRKeyLength + 3 THEN Nil
        ELSE IF decoded[1] # 139 \/ decoded[2] # 1 THEN Nil
        ELSE SubSeq(decoded, 3, 34)

\* a variant without the tag check
DecodeNoTag(recoveryKey) ==
    LET noSpaces == StripSpaces(recoveryKey)
        decoded  == Base58Decode(noSpaces)
    IN  IF Len(decoded) # AESCTRKeyLength + 3 THEN Nil
        ELSE IF XorFold(decoded, 34) # decoded[35] \/ decoded[2] # 1 THEN Nil
        ELSE SubSeq(decoded, 3, 34)

DecodeBase58RecoveryKey(recoveryKey) ==
    LET noSpaces == StripSpaces(recoveryKey)
        decoded  == Base58Decode(noSpaces)
    IN  IF Len(decoded) # AESCTRKeyLength + 3 THEN Nil
        ELSE IF XorFold(decoded, 34) # decoded[35]
                \/ decoded[1] # 139 \/ decoded[2] # 1 THEN Nil
        ELSE SubSeq(decoded, 3, 34)

(***************************************************************************)
(* crypto/aes: the AES-256 block cipher (FIPS-197).  A block and a round   *)
(* key are 16 bytes, column after column; a word is 4 bytes.               *)
(***************************************************************************)
sbox0 ==
    << 99, 124, 119, 123, 242, 107, 111, 197,  48,   1, 103,  43, 254, 215, 171, 118,
       202, 130, 201, 125, 250,  89,  71, 240, 173, 212, 162, 175, 156, 164, 114, 192,
       183, 253, 147,  38,  54,  63, 247, 204,  52, 165, 229, 241, 113, 216,  49,  21,
         4, 199,  35, 195,  24, 150,   5, 154,   7,  18, 128, 226, 235,  39, 178, 117,
         9, 131,  44,  26,  27, 110,  90, 160,  82,  59, 214, 179,  41, 227,  47, 132,
        83, 209,   0, 237,  32, 252, 177,  91, 106, 203, 190,  57,  74,  76,  88, 207,
       208, 239, 170, 251,  67,  77,  51, 133,  69, 249,   2, 127,  80,  60, 159, 168,
        81, 163,  64, 143, 146, 157,  56, 245, 188, 182, 218,  33,  16, 255, 243, 210,
       205,  12,  19, 236,  95, 151,  68,  23, 196, 167, 126,  61, 100,  93,  25, 115,
        96, 129,  79, 220,  34,  42, 144, 136,  70, 238, 184,  20, 222,  94,  11, 219,
       224,  50,  58,  10,  73,   6,  36,  92, 194, 211, 172,  98, 145, 149, 228, 121,
       231, 200,  55, 109, 141, 213,  78, 169, 108,  86, 244, 234, 101, 122, 174,   8,
       186, 120,  37,  46,  28, 166, 180, 198, 232, 221, 116,  31,  75, 189, 139, 138,
       112,  62, 181, 102,  72,   3, 246,  14,  97,  53,  87, 185, 134, 193,  29, 158,
       225, 248, 152,  17, 105, 217, 142, 148, 155,  30, 135, 233, 206,  85,  40, 223,
       140, 161, 137,  13, 191, 230,  66, 104,  65, 153,  45,  15, 176,  84, 187,  22 >>

SubByte(b) == sbox0[b + 1]

\* multiplication by x in GF(2^8) modulo x^8 + x^4 + x^3 + x + 1
Xtime(a) == IF a < 128 THEN 2 * a ELSE XorByte((2 * a) % 256, 27)

\* powx: the round constants x^(g-1)
RECURSIVE Powx(_)
Powx(g) == IF g = 1 THEN 1 ELSE Xtime(Powx(g - 1))

SubWord(w) == Slice([i \in 1..4 |-> SubByte(w[i])])

RotWord(w) == <<w[2], w[3], w[4], w[1]>>

\* the 8 words that follow the 8 words p in the expanded key; g numbers the
\* group (i / nk in expandKeyGo)
NextWords(p, g) ==
    LET t0 == XorSeq(SubWord(RotWord(p[8])), <<Powx(g), 0, 0, 0>>)
        n1 == XorSeq(p[1], t0)
        n2 == XorSeq(p[2], n1)
        n3 == XorSeq(p[3], n2)
        n4 == XorSeq(p[4], n3)
        n5 == XorSeq(p[5], SubWord(n4))
        n6 == XorSeq(p[6], n5)
        n7 == XorSeq(p[7], n6)
        n8 == XorSeq(p[8], n7)
    IN  <<n1, n2, n3, n4, n5, n6, n7, n8>>

\* expandKeyGo's loop, eight words to a turn: at most n turns from the
\* words w, until all 60 words of the 15 round keys are there
RECURSIVE ExpandRun(_, _)
ExpandRun(w, n) ==
    IF Len(w) >= 60 \/ n = 0 THEN w
    ELSE IF n = 1
    THEN w \o NextWords(SubSeq(w, Len(w) - 7, Len(w)), Len(w) \div 8)
    ELSE ExpandRun(ExpandRun(w, n \div 2), n - n \div 2)

\* aes.NewCipher(key) for a 32-byte key: the 15 round keys
ExpandKey(key) ==
    LET w == ExpandRun(Slice([i \in 1..8 |-> SubSeq(key, 4 * i - 3, 4 * i)]), 8)
    IN  Slice([r \in 1..15 |->
            w[4 * r - 3] \o w[4 * r - 2] \o w[4 * r - 1] \o w[4 * r]])

SubBytes(s) == Slice([i \in 1..Len(s) |-> SubByte(s[i])])

ShiftRows(s) ==
    Slice([i \in 1..Len(s) |->
        LET c == (i - 1) \div 4
            r == (i - 1) % 4
        IN  s[4 * ((c + r) % 4) + r + 1]])

MixColumns(s) ==
    Slice([i \in 1..Len(s) |->
        LET c == (i - 1) \div 4
            r == (i - 1) % 4
            a0 == s[4 * c + r + 1]
            a1 == s[4 * c + ((r + 1) % 4) + 1]
            a2 == s[4 * c + ((r + 2) % 4) + 1]
            a3 == s[4 * c + ((r + 3) % 4) + 1]
        IN  XorByte(XorByte(Xtime(a0), XorByte(Xtime(a1), a1)), XorByte(a2, a3))])

\* round r of block.Encrypt on the state s; round 14 is the last and has
\* no MixColumns
CipherRound(rk, s, r) ==
    IF r < 14
    THEN XorSeq(MixColumns(ShiftRows(SubBytes(s))), rk[r + 1])
    ELSE XorSeq(ShiftRows(SubBytes(s)), rk[r + 1])

\* at most n rounds from the state st = [r, s]: s is the block after round r
RECURSIVE CipherRun(_, _, _)
CipherRun(rk, st, n) ==
    IF st.r >= 14 \/ n = 0 THEN st
    ELSE IF n = 1
    THEN [r |-> st.r + 1, s |-> CipherRound(rk, st.s, st.r + 1)]
    ELSE CipherRun(rk, CipherRun(rk, st, n \div 2), n - n \div 2)

EncryptBlock(rk, in) ==
    CipherRun(rk, [r |-> 0, s |-> XorSeq(in, rk[1])], 14).s

(***************************************************************************)
(* crypto/cipher: NewCTR(block, iv).XORKeyStream(dst, src)                 *)
(***************************************************************************)
\* the counter after one block: the 16 bytes are incremented from the last
\* one, the carry running as far as the bytes are 0xFF
CounterInc(ctr) ==
    LET t == LeadingCount(Reverse(ctr), 255)
    IN  Slice([i \in 1..Len(ctr) |->
            IF i > Len(ctr) - t THEN 0
            ELSE IF i = Len(ctr) - t THEN ctr[i] + 1
            ELSE ctr[i]])

\* the first n blocks of the key stream from the counter ctr
RECURSIVE KeyStream(_, _, _)
KeyStream(rk, ctr, n) ==
    IF n = 0 THEN << >>
    ELSE EncryptBlock(rk, ctr) \o KeyStream(rk, CounterInc(ctr), n - 1)

\* a variant that leaves the last, partial block of the input out
XorA256CTRWholeBlocks(source, key, iv) ==
    LET n  == Len(source) \div AESCTRIVLength
        ks == KeyStream(ExpandKey(key), iv, n)
    IN  Slice([i \in 1..(AESCTRIVLength * n) |-> XorByte(source[i], ks[i])])

XorA256CTR(source, key, iv) ==
    LET block == ExpandKey(key)
        n     == (Len(source) + AESCTRIVLength - 1) \div AESCTRIVLength
        ks    == KeyStream(block, iv, n)
    IN  Slice([i \in 1..Len(source) |-> XorByte(source[i], ks[i])])

(***************************************************************************)
(* crypto/sha256.  A uint32 is the pair <<hi, lo>> of its 16-bit halves.   *)
(***************************************************************************)
Xor16(a, b) ==
    256 * XorByte(a \div 256, b \div 256) + XorByte(a % 256, b % 256)

And16(a, b) ==
    256 * AndByte(a \div 256, b \div 256) + AndByte(a % 256, b % 256)

XorW(x, y) == <<Xor16(x[1], y[1]), Xor16(x[2], y[2])>>

AndW(x, y) == <<And16(x[1], y[1]), And16(x[2], y[2])>>

NotW(x) == <<65535 - x[1], 65535 - x[2]>>

\* x + y on uint32: the sum wraps at 2^32
AddW(x, y) ==
    <<(x[1] + y[1] + ((x[2] + y[2]) \div 65536)) % 65536,
      (x[2] + y[2]) % 65536>>

\* the halves of a uint32 with the halves hi and lo rotated right by m < 16
Rot16(hi, lo, m) ==
    <<(hi \div (2 ^ m)) + (lo % (2 ^ m)) * (2 ^ (16 - m)),
      (lo \div (2 ^ m)) + (hi % (2 ^ m)) * (2 ^ (16 - m))>>

\* bits.RotateLeft32(x, -n) for 0 < n < 32
RotR(x, n) ==
    IF n < 16 THEN Rot16(x[1], x[2], n) ELSE Rot16(x[2], x[1], n - 16)

\* x >> n for 0 < n < 16
ShR(x, n) ==
    <<x[1] \div (2 ^ n),
      (x[2] \div (2 ^ n)) + (x[1] % (2 ^ n)) * (2 ^ (16 - n))>>

\* the round constants _K
K256 ==
    << <<17034, 12184>>, <<28983, 17553>>, <<46528, 64463>>, <<59829, 56229>>,
       <<14678, 49755>>, <<23025, 4593>>, <<37439, 33444>>, <<43804, 24277>>,
       <<55303, 43672>>, <<4739, 23297>>, <<9265, 34238>>, <<21772, 32195>>,
       <<29374, 23924>>, <<32990, 45566>>, <<39900, 1703>>, <<49563, 61812>>,
       <<58523, 27073>>, <<61374, 18310>>, <<4033, 40390>>, <<9228, 41420>>,
       <<11753, 11375>>, <<19060, 33962>>, <<23728, 43484>>, <<30457, 35034>>,
       <<38974, 20818>>, <<43057, 50797>>, <<45059, 10184>>, <<48985, 32711>>,
       <<50912, 3059>>, <<54695, 37191>>, <<1738, 25425>>, <<5161, 10599>>,
       <<10167, 2693>>, <<11803, 8504>>, <<19756, 28156>>, <<21304, 3347>>,
       <<25866, 29524>>, <<30314, 2747>>, <<33218, 51502>>, <<37490, 11397>>,
       <<41663, 59553>>, <<43034, 26187>>, <<49739, 35696>>, <<51052, 20899>>,
       <<53650, 59417>>, <<54937, 1572>>, <<62478, 13701>>, <<4202, 41072>>,
       <<6564, 49430>>, <<7735, 27656>>, <<10056, 30540>>, <<13488, 48309>>,
       <<14620, 3251>>, <<20184, 43594>>, <<23452, 51791>>, <<26670, 28659>>,
       <<29839, 33518>>, <<30885, 25455>>, <<33992, 30740>>, <<36039, 520>>,
       <<37054, 65530>>, <<42064, 27883>>, <<48889, 41975>>, <<50801, 30962>> >>

\* the initial hash value
init256 ==
    << <<27145, 58983>>, <<47975, 44677>>, <<15470, 62322>>, <<42319, 62778>>,
       <<20750, 21119>>, <<39685, 26764>>, <<8067, 55723>>, <<23520, 52505>> >>

\* the two terms of the schedule: t1 from v1 = w[i-2], t2 from v2 = w[i-15]
ScheduleT1(v1) == XorW(XorW(RotR(v1, 17), RotR(v1, 19)), ShR(v1, 10))

ScheduleT2(v2) == XorW(XorW(RotR(v2, 7), RotR(v2, 18)), ShR(v2, 3))

\* w[i] = t1 + w[i-7] + t2 + w[i-16] for i >= 16, from the words w[0..i-1]
\* of the schedule so far (w[i-k] is element Len(w) + 1 - k of the sequence)
NextW(w) ==
    AddW(AddW(ScheduleT1(w[Len(w) - 1]), w[Len(w) - 6]),
         AddW(ScheduleT2(w[Len(w) - 14]), w[Len(w) - 15]))

\* at most n turns of the loop that extends the schedule to 64 words
RECURSIVE Schedule(_, _)
Schedule(w, n) ==
    IF Len(w) >= 64 \/ n = 0 THEN w
    ELSE IF n = 1 THEN Append(w, NextW(w))
    ELSE Schedule(Schedule(w, n \div 2), n - n \div 2)

\* t1 := h + (rotr(e,6) ^ rotr(e,11) ^ rotr(e,25)) + ((e & f) ^ (^e & g))
\*       + _K[i] + w[i]
RoundT1(e, f, g, h, kw) ==
    AddW(AddW(h, XorW(XorW(RotR(e, 6), RotR(e, 11)), RotR(e, 25))),
         AddW(XorW(AndW(e, f), AndW(NotW(e), g)), kw))

\* t2 := (rotr(a,2) ^ rotr(a,13) ^ rotr(a,22)) + ((a & b) ^ (a & c) ^ (b & c))
RoundT2(a, b, c) ==
    AddW(XorW(XorW(RotR(a, 2), RotR(a, 13)), RotR(a, 22)),
         XorW(XorW(AndW(a, b), AndW(a, c)), AndW(b, c)))

\* h = g, g = f, f = e, e = d + t1, d = c, c = b, b = a, a = t1 + t2
RoundShift(v, t1, t2) ==
    <<AddW(t1, t2), v[1], v[2], v[3], AddW(v[4], t1), v[5], v[6], v[7]>>

\* round i (from 1) on the working variables v = <<a, b, c, d, e, f, g, h>>
Round256(v, w, i) ==
    RoundShift(v, RoundT1(v[5], v[6], v[7], v[8], AddW(K256[i], w[i])),
               RoundT2(v[1], v[2], v[3]))

\* at most n rounds from the state st = [i, v]: v after i rounds
RECURSIVE Rounds256(_, _, _)
Rounds256(w, st, n) ==
    IF st.i >= 64 \/ n = 0 THEN st
    ELSE IF n = 1
    THEN [i |-> st.i + 1, v |-> Round256(st.v, w, st.i + 1)]
    ELSE Rounds256(w, Rounds256(w, st, n \div 2), n - n \div 2)

\* the 16 big-endian words of the 64-byte chunk p
ChunkWords(p) ==
    Slice([j \in 1..16 |->
        <<256 * p[4 * j - 3] + p[4 * j - 2], 256 * p[4 * j - 1] + p[4 * j]>>])

\* h0 += a, ..., h7 += h
AddAll(h, v) == Slice([j \in 1..8 |-> AddW(h[j], v[j])])

\* block(dig, p) for one 64-byte chunk p: the hash value h after the chunk
Block256(h, p) ==
    AddAll(h, Rounds256(Schedule(ChunkWords(p), 48), [i |-> 0, v |-> h], 64).v)

\* the bytes checkSum writes after a message of len bytes: 0x80, zeros up
\* to 56 modulo 64, and the length in bits as 8 big-endian bytes
Padding256(len) ==
    <<128>> \o [j \in 1..((119 - (len % 64)) % 64) |-> 0]
    \o <<0, 0, 0, 0, (len \div 2097152) % 256, (len \div 8192) % 256,
         (len \div 32) % 256, ((len % 32) * 8) % 256>>

\* at most n chunks of the padded message m from the state st = [k, h]: h
\* after k chunks
RECURSIVE Chunks256(_, _, _)
Chunks256(m, st, n) ==
    IF 64 * st.k >= Len(m) \/ n = 0 THEN st
    ELSE IF n = 1
    THEN [k |-> st.k + 1,
          h |-> Block256(st.h, SubSeq(m, 64 * st.k + 1, 64 * st.k + 64))]
    ELSE Chunks256(m, Chunks256(m, st, n \div 2), n - n \div 2)

\* byte k (0 is the highest) of the uint32 x
ByteOf(x, k) ==
    CASE k = 0 -> x[1] \div 256
      [] k = 1 -> x[1] % 256
      [] k = 2 -> x[2] \div 256
      [] OTHER -> x[2] % 256

\* the digest: the 8 words of h, big-endian
Digest256(h) ==
    Slice([j \in 1..32 |-> ByteOf(h[(j + 3) \div 4], (j - 1) % 4)])

\* sha256.Sum256(data): the 32 bytes of the digest; the padded message has
\* at most Len(data) \div 64 + 2 chunks
Sum256(data) ==
    Digest256(Chunks256(data \o Padding256(Len(data)),
                        [k |-> 0, h |-> init256],
                        (Len(data) \div 64) + 2).h)

(***************************************************************************)
(* crypto/hmac with sha256.New                                             *)
(***************************************************************************)
BlockSize256 == 64

\* the key hmac.New keeps: a key longer than a block is hashed first
HmacKey(hkey) ==
    IF Len(hkey) > BlockSize256 THEN Sum256(hkey) ELSE hkey

\* ipad and opad: the key, zero-padded to a block, with c XORed into it
HmacPad(k0, c) ==
    Slice([j \in 1..BlockSize256 |->
        XorByte(IF j <= Len(k0) THEN k0[j] ELSE 0, c)])

\* Write(msg) and Sum(nil) on the HMAC with the kept key k0
HmacSum(k0, msg) ==
    Sum256(HmacPad(k0, 92) \o Sum256(HmacPad(k0, 54) \o msg))

\* hmac.New(sha256.New, hkey) then Write(msg) and Sum(nil)
HMACSHA256(hkey, msg) == HmacSum(HmacKey(hkey), msg)

(***************************************************************************)
(* golang.org/x/crypto/hkdf: the reader New(hash, secret, salt, info)      *)
(* returns and its Read.  A reader is the record of the fields of the      *)
(* struct hkdf: the expander's key prk, size, info, counter, prev, buf.    *)
(***************************************************************************)
Min(a, b) == IF a <= b THEN a ELSE b

\* hkdf.Extract(hash, secret, salt): a nil salt stands for a hash size of
\* zero bytes
Extract(secret, salt) ==
    HMACSHA256(IF salt = << >> THEN [j \in 1..32 |-> 0] ELSE salt, secret)

\* hkdf.Expand(hash, pseudorandomKey, info)
Expand(prk, info) ==
    [prk |-> prk, size |-> 32, info |-> info, counter |-> 1,
     prev |-> << >>, buf |-> << >>]

\* hkdf.New(hash, secret, salt, info)
HkdfNew(secret, salt, info) == Expand(Extract(secret, salt), info)

\* the state of Read's loop st = [f, out, want, n]: f the reader, out the
\* bytes copied into p so far, want the length of what is left of p, n the
\* number of bytes the last copy moved.  One turn, prev being the
\* expander's new sum:
ReadCopy(st, prev) ==
    [f    |-> [st.f EXCEPT !.prev = prev,
                           !.counter = (st.f.counter + 1) % 256,
                           !.buf = prev],
     out  |-> st.out \o SubSeq(prev, 1, Min(st.want, Len(prev))),
     want |-> st.want - Min(st.want, Len(prev)),
     n    |-> Min(st.want, Len(prev))]

ReadTurn(st) ==
    ReadCopy(st, HMACSHA256(st.f.prk,
                            st.f.prev \o st.f.info \o <<st.f.counter>>))

\* at most k turns of the loop for len(p) > 0
RECURSIVE ReadLoop(_, _)
ReadLoop(st, k) ==
    IF st.want = 0 \/ k = 0 THEN st
    ELSE IF k = 1 THEN ReadTurn(st)
    ELSE ReadLoop(ReadLoop(st, k \div 2), k - k \div 2)

\* n := copy(p, f.buf); p = p[n:] before the loop
ReadLeftovers(f, need) ==
    [f    |-> f,
     out  |-> SubSeq(f.buf, 1, Min(need, Len(f.buf))),
     want |-> need - Min(need, Len(f.buf)),
     n    |-> Min(need, Len(f.buf))]

\* f.buf = f.buf[n:] after the loop
ReadDone(st) ==
    [f   |-> [st.f EXCEPT !.buf = SubSeq(st.f.buf, st.n + 1, Len(st.f.buf))],
     out |-> st.out]

\* f.Read(p) with len(p) = need: the reader afterwards and the bytes in p,
\* which stay zero when the reader refuses
HkdfRead(f, need) ==
    IF Len(f.buf) + (255 - f.counter + 1) * f.size < need
    THEN [f |-> f, out |-> [j \in 1..need |-> 0]]
    ELSE ReadDone(ReadLoop(ReadLeftovers(f, need), need))

\* the second Read of DeriveKeysSHA256, after the first returned
ReadHMACKey(first) ==
    [aesKey |-> first.out, hmacKey |-> HkdfRead(first.f, HMACKeyLength).out]

\* a variant that reads the HMAC key first
ReadAESKeyLast(first) ==
    [aesKey |-> HkdfRead(first.f, AESCTRKeyLength).out, hmacKey |-> first.out]

DeriveKeysHMACFirst(key, name) ==
    ReadAESKeyLast(HkdfRead(HkdfNew(key, [j \in 1..32 |-> 0], name),
                            HMACKeyLength))

\* derivedHkdf.Read(aesKey[:]) and then derivedHkdf.Read(hmacKey[:]) on
\* derivedHkdf := hkdf.New(sha256.New, key[:], zeroBytes[:], []byte(name))
DeriveKeysSHA256(key, name) ==
    ReadHMACKey(HkdfRead(HkdfNew(key, [j \in 1..32 |-> 0], name),
                         AESCTRKeyLength))

(***************************************************************************)
(* The randomness source, math/rand.Read(p): it fills p with the next      *)
(* len(p) bytes of the generator and returns a nil error, always.          *)
(***************************************************************************)
\* rand.Read(p) with len(p) = n at position pos of the stream src
RandRead(src, pos, n) == SubSeq(src, pos + 1, pos + n)

\* a variant that reads the whole IV from the stream
GenAttachmentFullIV(src, pos) ==
    [key |-> RandRead(src, pos, AESCTRKeyLength),
     iv  |-> RandRead(src, pos + AESCTRKeyLength, 8)
             \o RandRead(src, pos + AESCTRKeyLength, 8)]

\* key and iv after GenAttachmentA256CTR has read the stream from pos on
GenAttachmentA256CTR(src, pos) ==
    LET key  == RandRead(src, pos, AESCTRKeyLength)
        head == RandRead(src, pos + AESCTRKeyLength, 8)
    IN  [key |-> key,
         iv  |-> [i \in 1..AESCTRIVLength |-> IF i <= 8 THEN head[i] ELSE 0]]

\* a variant that clears the last bit of the IV instead
GenIVLastBit(src, pos) ==
    LET iv == RandRead(src, pos, AESCTRIVLength)
    IN  [iv EXCEPT ![16] = AndByte(iv[16], 254)]

\* iv after GenA256CTRIV has read the stream from pos on
GenA256CTRIV(src, pos) ==
    LET iv == RandRead(src, pos, AESCTRIVLength)
    IN  [iv EXCEPT ![9] = AndByte(iv[9], 127)]

(***************************************************************************)
(* Bounds of the model and the inputs drawn within them.                   *)
(***************************************************************************)
\* input byte sequences are arithmetic progressions a, a+d, a+2d, ... mod 256
MaxStride == 1
\* the longest key handed to EncodeBase58RecoveryKey
MaxKeyLen == 34
\* the number of characters a user inserts into or deletes from a key
MaxEdits == 2
\* the number of bytes the randomness source delivers in a run
StreamLen == 56
\* the longest message handed to XorA256CTR
MaxMsgLen == 33
\* the longest secret handed to DeriveKeysSHA256
MaxSecretLen == 56
\* the number of times DeriveKeysSHA256 is called with one (secret, label)
MaxCalls == 2

\* characters a user may type that are not base58 digits
Ascii == [tab |-> 9, newline |-> 10, zero |-> 48, ell |-> 108]

ByteSeq(n, a, d) == [i \in 1..n |-> (a + (i - 1) * d) % 256]

Strides == 0..MaxStride

KeyLens == {0, 1} \cup ((AESCTRKeyLength - 1)..MaxKeyLen)

\* the keys of the round trip, of every length in KeyLens
RoundTripKeys ==
    {ByteSeq(n, a, d) : n \in KeyLens, a \in {0, 1, 128, 139, 255}, d \in Strides}

\* 32-byte secrets whose payload is corrupted byte by byte
TamperKeys == {ByteSeq(AESCTRKeyLength, a, d) : a \in {0, 255}, d \in Strides}

\* 32-byte secrets whose text is edited, or forged around
EditKeys == {ByteSeq(AESCTRKeyLength, a, MaxStride) : a \in {0, 255}}

RandStreams == {ByteSeq(StreamLen, a, d) : a \in 0..255, d \in Strides}

\* a key, an initial counter block and a message a caller of XorA256CTR
\* may hold: the CTR-AES256 example of NIST SP 800-38A, F.5.5
SampleKey ==
    <<  96,  61, 235,  16,  21, 202, 113, 190,  43, 115, 174, 240, 133, 125, 119, 129,
        31,  53,  44,   7,  59,  97,   8, 215,  45, 152,  16, 163,   9,  20, 223, 244 >>

SampleIV ==
    << 240, 241, 242, 243, 244, 245, 246, 247, 248, 249, 250, 251, 252, 253, 254, 255 >>

SampleMessage ==
    << 107, 193, 190, 226,  46,  64, 159, 150, 233,  61, 126,  17, 115, 147,  23,  42,
       174,  45, 138,  87,  30,   3, 172, 156, 158, 183, 111, 172,  69, 175, 142,  81,
        48, 200,  28,  70, 163,  92, 228,  17, 229, 251, 193,  25,  26,  10,  82, 239,
       246, 159,  36,  69, 223,  79, 155,  23, 173,  43,  65, 123, 230, 108,  55,  16 >>

CtrKeys == {SampleKey, ByteSeq(AESCTRKeyLength, 0, 0)}

\* the sample counter block, one that GenAttachmentA256CTR returns, and the
\* one whose increment wraps around
CtrIVs ==
    {SampleIV,
     [i \in 1..AESCTRIVLength |-> IF i <= 8 THEN 16 * i ELSE 0],
     ByteSeq(AESCTRIVLength, 255, 0)}

\* messages of every length up to MaxMsgLen, the empty one among them
CtrMessages == {SubSeq(SampleMessage, 1, n) : n \in 0..MaxMsgLen}

\* the labels key derivation is called with, in ASCII
Labels ==
    {<< >>,
     \* "m.megolm_backup.v1"
     << 109,  46, 109, 101, 103, 111, 108, 109,  95,  98,  97,  99, 107, 117, 112,  46,
        118,  49 >>,
     \* "m.cross_signing.self_signing"
     << 109,  46,  99, 114, 111, 115, 115,  95, 115, 105, 103, 110, 105, 110, 103,  46,
        115, 101, 108, 102,  95, 115, 105, 103, 110, 105, 110, 103 >>}

\* secrets of the lengths at which the hashed input takes one chunk more
Secrets ==
    {ByteSeq(n, a, 1) :
        n \in {0, 1, AESCTRKeyLength, MaxSecretLen - 1, MaxSecretLen},
        a \in {0, 128, 255}}

InsertAt(s, pos, c) == SubSeq(s, 1, pos) \o <<c>> \o SubSeq(s, pos + 1, Len(s))

RemoveAt(s, pos) == SubSeq(s, 1, pos - 1) \o SubSeq(s, pos + 1, Len(s))

\* where a user's edit lands: leading, inside a group, trailing
EditPoints(s) == {0, 2, Len(s)} \cap (0..Len(s))

SpaceIndexes(s) == {i \in 1..Len(s) : s[i] = Space}

\* the spaces a user drops one at a time: the first and the last
EndSpaces(s) ==
    {i \in SpaceIndexes(s) :
        \/ \A j \in SpaceIndexes(s) : i <= j
        \/ \A j \in SpaceIndexes(s) : i >= j}

\* a payload written by hand: tag, version, a 32-byte body, the parity
\* byte off by delta, then cut, extended or emptied
ForgedPayload(k, tag, ver, delta, shape) ==
    LET body == <<tag, ver>> \o k
        full == Append(body, XorByte(XorFold(body, Len(body)), delta))
    IN  CASE shape = "exact" -> full
          [] shape = "short" -> SubSeq(full, 1, Len(full) - 1)
          [] shape = "long"  -> Append(full, 0)
          [] shape = "zero"  -> <<0>> \o full
          [] shape = "empty" -> << >>

Shapes == {"exact", "short", "long", "zero", "empty"}

(***************************************************************************)
(* State.                                                                  *)
(*   pc       where the client is: "start", then how the text in hand came *)
(*            about ("encoded", "tampered", "forged", "edited"), or what   *)
(*            the generator returned last ("attachment", "iv")             *)
(*   key      the argument of EncodeBase58RecoveryKey                      *)
(*   payload  the bytes whose base58 text the client holds (inputBytes)    *)
(*   text     the recovery key string in hand                              *)
(*   edits    the number of edits made to text                             *)
(*   called   DecodeBase58RecoveryKey(text) has returned                   *)
(*   result   what it returned                                             *)
(*   rnd      the bytes the randomness source delivers, rndPos how many    *)
(*            of them have been read                                       *)
(*   genKey, genIV, genFrom  the key and IV generated last and the stream  *)
(*            position the generator started reading at                    *)
(*   source, ctrKey, ctrIV  a message and the key and IV it is encrypted   *)
(*            under; cipherText = XorA256CTR(source, ctrKey, ctrIV) once   *)
(*            pc is "encrypted", plainText = XorA256CTR(cipherText,        *)
(*            ctrKey, ctrIV) once pc is "decrypted"                        *)
(*   secret, label  the arguments of DeriveKeysSHA256                      *)
(*   derived  what the calls of DeriveKeysSHA256(secret, label) returned,  *)
(*            in the order of the calls                                    *)
(***************************************************************************)
VARIABLES pc, key, payload, text, edits, called, result,
          rnd, rndPos, genKey, genIV, genFrom,
          source, ctrKey, ctrIV, cipherText, plainText,
          secret, label, derived

codecVars == <<key, payload, text, edits, called, result>>
genVars == <<rnd, rndPos, genKey, genIV, genFrom>>
ctrVars == <<source, ctrKey, ctrIV, cipherText, plainText>>
kdfVars == <<secret, label, derived>>
vars == <<pc, codecVars, genVars, ctrVars, kdfVars>>

CodecIdle ==
    /\ payload = << >>
    /\ text = << >>
    /\ edits = 0
    /\ called = FALSE
    /\ result = Nil

GenIdle ==
    /\ rndPos = 0
    /\ genKey = << >>
    /\ genIV = << >>
    /\ genFrom = 0

CtrIdle ==
    /\ cipherText = << >>
    /\ plainText = << >>

KdfIdle == derived = << >>

\* no message to encrypt and no secret to derive keys from
NoCrypto ==
    /\ source = << >>
    /\ ctrKey = << >>
    /\ ctrIV = << >>
    /\ CtrIdle
    /\ secret = << >>
    /\ label = << >>
    /\ KdfIdle

(***************************************************************************)
(* Calls of the codec.                                                     *)
(***************************************************************************)
Encode ==
    /\ pc = "start"
    /\ payload' = Payload(key)
    /\ text' = EncodeBase58RecoveryKey(key)
    /\ pc' = "encoded"
    /\ UNCHANGED <<key, edits, called, result, genVars, ctrVars, kdfVars>>

Decode ==
    /\ pc \in {"encoded", "tampered", "forged", "edited"}
    /\ ~called
    /\ result' = DecodeBase58RecoveryKey(text)
    /\ called' = TRUE
    /\ UNCHANGED <<pc, key, payload, text, edits, genVars, ctrVars, kdfVars>>

\* the value of exactly one byte of the encoded payload is changed and the
\* altered payload is written out in base58
Tamper ==
    /\ pc = "encoded"
    /\ ~called
    /\ \E pos \in 1..Len(payload) :
       \E v \in {XorByte(payload[pos], m) : m \in {1, 2, 4, 8, 16, 32, 64, 128}}
                \cup {0, 255} :
          LET altered == [payload EXCEPT ![pos] = v]
          IN  /\ v # payload[pos]
              /\ payload' = altered
              /\ text' = Base58Encode(altered)
    /\ pc' = "tampered"
    /\ UNCHANGED <<key, edits, called, result, genVars, ctrVars, kdfVars>>

\* a recovery key typed in from bytes that need not be a payload
Forge ==
    /\ pc = "start"
    /\ \E tag \in {139, 138, 0}, ver \in {1, 0, 2}, delta \in {0, 1, 128},
          shape \in Shapes :
          LET forged == ForgedPayload(key, tag, ver, delta, shape)
          IN  /\ payload' = forged
              /\ text' = Spaced(Base58Encode(forged))
    /\ pc' = "forged"
    /\ UNCHANGED <<key, edits, called, result, genVars, ctrVars, kdfVars>>

\* one character from outside the base58 alphabet gets into a typed key
Garble ==
    /\ pc = "forged"
    /\ ~called
    /\ \E pos \in EditPoints(text), c \in {Ascii.tab, Ascii.zero, Ascii.ell} :
          text' = InsertAt(text, pos, c)
    /\ pc' = "edited"
    /\ edits' = edits + 1
    /\ UNCHANGED <<key, payload, called, result, genVars, ctrVars, kdfVars>>

\* the user adds a space, a tab or a newline to an encoded key
InsertChar ==
    /\ pc \in {"encoded", "edited"}
    /\ ~called
    /\ edits < MaxEdits
    /\ \E pos \in EditPoints(text), c \in {Space, Ascii.tab, Ascii.newline} :
          text' = InsertAt(text, pos, c)
    /\ pc' = "edited"
    /\ edits' = edits + 1
    /\ UNCHANGED <<key, payload, called, result, genVars, ctrVars, kdfVars>>

\* the user leaves out one space of an encoded key
DeleteSpace ==
    /\ pc \in {"encoded", "edited"}
    /\ ~called
    /\ edits < MaxEdits
    /\ \E pos \in EndSpaces(text) : text' = RemoveAt(text, pos)
    /\ pc' = "edited"
    /\ edits' = edits + 1
    /\ UNCHANGED <<key, payload, called, result, genVars, ctrVars, kdfVars>>

\* the user leaves out every space
DropSpaces ==
    /\ pc \in {"encoded", "edited"}
    /\ ~called
    /\ edits < MaxEdits
    /\ SpaceIndexes(text) # {}
    /\ text' = SelectSeq(text, LAMBDA c : c # Space)
    /\ pc' = "edited"
    /\ edits' = edits + 1
    /\ UNCHANGED <<key, payload, called, result, genVars, ctrVars, kdfVars>>

(***************************************************************************)
(* Calls of the generators.                                                *)
(***************************************************************************)
CallGenAttachment ==
    /\ pc \in {"start", "attachment", "iv"}
    /\ rndPos + AESCTRKeyLength + 8 <= Len(rnd)
    /\ LET r == GenAttachmentA256CTR(rnd, rndPos)
       IN  /\ genKey' = r.key
           /\ genIV' = r.iv
    /\ genFrom' = rndPos
    /\ rndPos' = rndPos + AESCTRKeyLength + 8
    /\ pc' = "attachment"
    /\ UNCHANGED <<rnd, codecVars, ctrVars, kdfVars>>

CallGenIV ==
    /\ pc \in {"start", "attachment", "iv"}
    /\ rndPos + AESCTRIVLength <= Len(rnd)
    /\ genIV' = GenA256CTRIV(rnd, rndPos)
    /\ genFrom' = rndPos
    /\ rndPos' = rndPos + AESCTRIVLength
    /\ pc' = "iv"
    /\ UNCHANGED <<rnd, genKey, codecVars, ctrVars, kdfVars>>

(***************************************************************************)
(* Calls of XorA256CTR and DeriveKeysSHA256.                               *)
(***************************************************************************)
Encrypt ==
    /\ pc = "start"
    /\ cipherText' = XorA256CTR(source, ctrKey, ctrIV)
    /\ pc' = "encrypted"
    /\ UNCHANGED <<source, ctrKey, ctrIV, plainText, codecVars, genVars,
                   kdfVars>>

\* the ciphertext is run through XorA256CTR with the same key and IV
Decrypt ==
    /\ pc = "encrypted"
    /\ plainText' = XorA256CTR(cipherText, ctrKey, ctrIV)
    /\ pc' = "decrypted"
    /\ UNCHANGED <<source, ctrKey, ctrIV, cipherText, codecVars, genVars,
                   kdfVars>>

CallDeriveKeys ==
    /\ pc \in {"start", "derived"}
    /\ Len(derived) < MaxCalls
    /\ derived' = Append(derived, DeriveKeysSHA256(secret, label))
    /\ pc' = "derived"
    /\ UNCHANGED <<secret, label, codecVars, genVars, ctrVars>>

(***************************************************************************)
(* Specifications.                                                         *)
(***************************************************************************)
\* encode a key, decode the text
Init ==
    /\ pc = "start"
    /\ key \in RoundTripKeys
    /\ CodecIdle
    /\ rnd = << >>
    /\ GenIdle
    /\ NoCrypto

Next == Encode \/ Decode

Spec == Init /\ [][Next]_vars

\* encode a secret, corrupt one byte of the payload, decode
InitTamper ==
    /\ pc = "start"
    /\ key \in TamperKeys
    /\ CodecIdle
    /\ rnd = << >>
    /\ GenIdle
    /\ NoCrypto

NextTamper == Encode \/ Tamper \/ Decode

SpecTamper == InitTamper /\ [][NextTamper]_vars

\* encode a secret, edit the spacing of the text, decode
InitEdit ==
    /\ pc = "start"
    /\ key \in EditKeys
    /\ CodecIdle
    /\ rnd = << >>
    /\ GenIdle
    /\ NoCrypto

NextSpaces == Encode \/ InsertChar \/ DeleteSpace \/ DropSpaces \/ Decode

SpecSpaces == InitEdit /\ [][NextSpaces]_vars

\* decode a text typed in by hand
NextDecode == Forge \/ Garble \/ Decode

SpecDecode == InitEdit /\ [][NextDecode]_vars

\* generate keys and IVs from what the randomness source delivers
InitGen ==
    /\ pc = "start"
    /\ key = << >>
    /\ CodecIdle
    /\ rnd \in RandStreams
    /\ GenIdle
    /\ NoCrypto

NextGen == CallGenAttachment \/ CallGenIV

SpecGen == InitGen /\ [][NextGen]_vars

\* encrypt a message, run the ciphertext through XorA256CTR again
InitCTR ==
    /\ pc = "start"
    /\ key = << >>
    /\ CodecIdle
    /\ rnd = << >>
    /\ GenIdle
    /\ source \in CtrMessages
    /\ ctrKey \in CtrKeys
    /\ ctrIV \in CtrIVs
    /\ CtrIdle
    /\ secret = << >>
    /\ label = << >>
    /\ KdfIdle

NextCTR == Encrypt \/ Decrypt

SpecCTR == InitCTR /\ [][NextCTR]_vars

\* derive keys from a secret and a label, and once more
InitKDF ==
    /\ pc = "start"
    /\ key = << >>
    /\ CodecIdle
    /\ rnd = << >>
    /\ GenIdle
    /\ source = << >>
    /\ ctrKey = << >>
    /\ ctrIV = << >>
    /\ CtrIdle
    /\ secret \in Secrets
    /\ label \in Labels
    /\ KdfIdle

NextKDF == CallDeriveKeys

SpecKDF == InitKDF /\ [][NextKDF]_vars

(***************************************************************************)
(* Properties.                                                             *)
(***************************************************************************)
ZeroSecret == [i \in 1..AESCTRKeyLength |-> 0]

\* bit k of the byte v
BitAt(v, k) == (v \div (2 ^ k)) % 2

\* the XOR of s[1..n], bit by bit: bit k is set iff an odd number of the
\* bytes have it set
ParityOf(s, n) ==
    LET odd(k) == Cardinality({i \in 1..n : BitAt(s[i], k) = 1}) % 2
    IN  odd(0) + 2 * odd(1) + 4 * odd(2) + 8 * odd(3)
        + 16 * odd(4) + 32 * odd(5) + 64 * odd(6) + 128 * odd(7)

\* the first 32 bytes of k, with zero bytes after a shorter k
PadOrTruncate(k) ==
    [i \in 1..AESCTRKeyLength |-> IF i <= Len(k) THEN k[i] ELSE 0]

\* C1: decoding the encoding of a 32-byte secret returns the secret, byte
\* for byte
C1_RoundTrip ==
    (called /\ pc = "encoded" /\ Len(key) = AESCTRKeyLength) => result = key

C1_Witness ==
    called /\ pc = "encoded" /\ key = ZeroSecret /\ result = ZeroSecret

\* C2: DecodeBase58RecoveryKey returns a result other than nil exactly when
\* the bytes the text stands for are 35 bytes with tag 0x8B, version 1 and
\* the XOR of bytes 0..33 in byte 34, and then it returns bytes 2..33; every
\* other text (wrong length, tag, version or parity, a character that is no
\* base58 digit) gives nil
C2_StrictDecode ==
    called =>
        LET foreign ==
                \E i \in 1..Len(text) :
                    text[i] \in {Ascii.tab, Ascii.zero, Ascii.ell}
            wellFormed ==
                /\ Len(payload) = 35
                /\ payload[1] = 139
                /\ payload[2] = 1
                /\ payload[35] = ParityOf(payload, 34)
        IN  /\ result # Nil <=> (~foreign /\ wellFormed)
            /\ result # Nil => result = SubSeq(payload, 3, 34)

C2_Witness ==
    /\ called
    /\ pc = "forged"
    /\ Len(payload) = 35
    /\ payload[1] = 138
    /\ payload[2] = 1
    /\ payload[35] = ParityOf(payload, 34)
    /\ result = Nil

\* C3: after the value of exactly one byte of an encoded payload has been
\* changed, decoding the base58 text of the altered payload gives nil
C3_TamperDetected ==
    ( /\ called
      /\ pc = "tampered"
      /\ Len(key) = AESCTRKeyLength
      /\ Cardinality({i \in 1..35 : payload[i] # Payload(key)[i]}) = 1 )
    => result = Nil

C3_Witness ==
    /\ called
    /\ pc = "tampered"
    /\ payload[1] = 139
    /\ payload[2] = 1
    /\ payload[20] # Payload(key)[20]
    /\ result = Nil

\* C4: the encoded string is the base58 text of the payload in order with
\* one space before each character whose index in the base58 text is a
\* positive multiple of 4 and nowhere else: no leading, trailing or doubled
\* space, and the string without its spaces is the base58 text
C4_Spacing ==
    pc = "encoded" =>
        LET b == Base58Encode(payload)
            n == Len(b)
        IN  /\ n > 0
            /\ Len(text) = n + (n - 1) \div 4
            /\ \A k \in 0..(n - 1) : text[k + k \div 4 + 1] = b[k + 1]
            /\ \A i \in 1..Len(text) : (text[i] = Space) <=> (i % 5 = 0)
            /\ text[1] # Space
            /\ text[Len(text)] # Space
            /\ SelectSeq(text, LAMBDA c : c # Space) = b

C4_Witness ==
    /\ pc = "encoded"
    /\ Len(text) > 10
    /\ text[5] = Space
    /\ text[10] = Space
    /\ text[Len(text)] # Space

\* C5: XorA256CTR applied to its own output under the same key and IV gives
\* the message back, and the ciphertext in between is as long as the
\* message, for every length of message, the empty one included
C5_SelfInverse ==
    /\ pc \in {"encrypted", "decrypted"} => Len(cipherText) = Len(source)
    /\ pc = "decrypted" => plainText = source

\* the ciphertext SP 800-38A gives for the first MaxMsgLen sample bytes
C5_Witness ==
    /\ pc = "decrypted"
    /\ ctrKey = SampleKey
    /\ ctrIV = SampleIV
    /\ Len(source) = MaxMsgLen
    /\ cipherText =
         <<  96,  30, 195,  19, 119,  87, 137, 165, 183, 167, 245,   4, 187, 243, 210,  40,
            244,  67, 227, 202,  77,  98, 181, 154, 202, 132, 233, 144, 202, 202, 245, 197,
             43 >>
    /\ plainText = source

\* T(i) of RFC 5869, section 2.3: T(0) is empty and
\* T(i) = HMAC-Hash(PRK, T(i-1) | info | i)
RECURSIVE OutputBlock(_, _, _)
OutputBlock(prk, info, i) ==
    IF i = 0 THEN << >>
    ELSE HMACSHA256(prk, OutputBlock(prk, info, i - 1) \o info \o <<i>>)

\* the first 64 bytes of the HKDF-SHA256 output stream: PRK is
\* HMAC-Hash(salt, IKM), the stream is T(1) | T(2)
OutputStream(ikm, salt, info) ==
    LET prk == HMACSHA256(salt, ikm)
    IN  OutputBlock(prk, info, 1) \o OutputBlock(prk, info, 2)

\* every call so far returned bytes 0..31 and 32..63 of the stream okm
ReadsOf(okm) ==
    \A c \in 1..Len(derived) :
        /\ Len(okm) = AESCTRKeyLength + HMACKeyLength
        /\ derived[c].aesKey = SubSeq(okm, 1, AESCTRKeyLength)
        /\ derived[c].hmacKey =
               SubSeq(okm, AESCTRKeyLength + 1, AESCTRKeyLength + HMACKeyLength)

\* C6: DeriveKeysSHA256(secret, label) returns as cipher key bytes 0..31 and
\* as MAC key bytes 32..63 of the one HKDF-SHA256 output stream with the
\* secret as input key material, 32 zero bytes as salt and the label as
\* info, and every call with the same (secret, label) returns the same
C6_DerivedKeys ==
    pc = "derived" =>
        /\ ReadsOf(OutputStream(secret, ByteSeq(32, 0, 0), label))
        /\ \A c \in 1..Len(derived) : derived[c] = derived[1]

\* the keys Python's hashlib and hmac give for the secret 0, 1, ..., 31 and
\* the label "m.megolm_backup.v1"
C6_Witness ==
    /\ pc = "derived"
    /\ Len(derived) = MaxCalls
    /\ secret = ByteSeq(AESCTRKeyLength, 0, 1)
    /\ Len(label) = 18
    /\ derived[MaxCalls].aesKey =
         << 242,  46,   1,   6, 175,  45, 177,   0, 185, 242, 153,  43, 192, 166, 163,  41,
             99, 248,  24, 204,  12, 164, 105, 202,  68, 194,   0, 158, 239,  79,  78, 165 >>
    /\ derived[MaxCalls].hmacKey =
         <<  94, 182,  93,   0,   1, 206, 186, 146, 216,  47,   4, 252, 218,  90,  42,  63,
            102,  90,  68, 185, 126, 247,  27, 152, 174,  63,  95, 181, 126,  45, 171,  82 >>

\* C7: after GenAttachmentA256CTR, IV bytes 8..15 are zero, whatever the
\* randomness source delivered; the key is the first 32 bytes read and IV
\* bytes 0..7 the next 8, and nothing more was read
C7_AttachmentCounterZero ==
    pc = "attachment" =>
        /\ Len(genKey) = AESCTRKeyLength
        /\ Len(genIV) = AESCTRIVLength
        /\ \A i \in 9..16 : genIV[i] = 0
        /\ \A i \in 1..32 : genKey[i] = rnd[genFrom + i]
        /\ \A i \in 1..8 : genIV[i] = rnd[genFrom + 32 + i]
        /\ rndPos = genFrom + 40

C7_Witness ==
    /\ pc = "attachment"
    /\ genFrom > 0
    /\ rnd[genFrom + 40] = 255
    /\ genIV[8] = 255
    /\ genIV[9] = 0

C9_OnlySpacesIgnored ==
    (called /\ pc \in {"encoded", "edited"} /\ Len(key) = AESCTRKeyLength) =>
        IF \E i \in 1..Len(text) : text[i] \in {Ascii.tab, Ascii.newline}
        THEN result = Nil
        ELSE result = key

C9_Witness ==
    /\ called
    /\ pc = "edited"
    /\ edits = MaxEdits
    /\ text[1] = Space
    /\ text[Len(text)] = Space
    /\ result = key

\* C10: EncodeBase58RecoveryKey takes a key of any length: the text always
\* decodes to exactly 32 bytes, the first 32 bytes of the key, with zero
\* bytes after a shorter key, which is the key itself only when the key is
\* 32 bytes long
C10_PadOrTruncate ==
    (called /\ pc = "encoded") =>
        /\ Len(result) = AESCTRKeyLength
        /\ result = PadOrTruncate(key)
        /\ result = key <=> Len(key) = AESCTRKeyLength

C10_Witness ==
    /\ called
    /\ pc = "encoded"
    /\ Len(key) = AESCTRKeyLength + 1
    /\ key[AESCTRKeyLength + 1] # 0
    /\ result = SubSeq(key, 1, AESCTRKeyLength)

====
